---- MODULE Spec2Model ----
(***************************************************************************)
(* State-machine model of src/frontend/StrokeCharts.vue: the component's   *)
(* data (data, loading, charts), its $refs, the fetch pipeline of          *)
(* fetchData (request, then-handler, catch-handler), renderCharts /        *)
(* updateChart, and the debounced trigger debouncedFetchData, which is      *)
(* lodash-es debounce(this.fetchData, 1000, {leading: true}).              *)
(*                                                                         *)
(* A nullable value (data, charts[title], a response body) is a sequence   *)
(* of length 0 (null / undefined) or 1 (the value).                        *)
(***************************************************************************)
EXTENDS Integers, Sequences, FiniteSets, TLC

\* ------------------------------------------------------------- bounds
MaxTime == 1400          \* horizon of the clock, in ms
MaxCalls == 3            \* calls of debouncedFetchData in one run

\* ---------------------------------------------------- program constants
Wait == 1000             \* debounce(this.fetchData, 1000, ...)

Titles == {"strokeUnitAccessChart"}

\* $refs[title]: no element, a canvas, or an element on which new Chart throws
Absent == "absent"
Canvas == "canvas"
Broken == "broken"
RefStates == {Absent, Canvas, Broken}

\* Response bodies (interface ChartData, the fields this component reads)
SnapshotA ==
    [months |-> <<"Jan", "Feb">>,
     stroke_unit_access |-> <<80, 90>>,
     stroke_unit_access_percentage |-> 85]
SnapshotB ==
    [months |-> <<"Jan", "Feb", "Mar">>,
     stroke_unit_access |-> <<70, 75, 95>>,
     stroke_unit_access_percentage |-> 80]
Snapshots == {SnapshotA, SnapshotB}

VARIABLES
    phase,           \* "new", "created", "mounted": lifecycle of the component
    data,            \* this.data: <<>> (null) or <<snapshot>>
    loading,         \* this.loading
    charts,          \* this.charts: title -> <<>> or <<Chart instance>>
    refs,            \* this.$refs: title -> RefStates
    requests,        \* requests issued by fetchData, in start order
    handled,         \* errors handed to utils.handleRequestError, in order
    constructed,     \* title -> number of Chart instances constructed
    applied,         \* ids of the requests whose then-handler ran, in order
    calls,           \* title -> [n, absent, broken]: updateChart calls seen
    lastOp,          \* what the last step did; "repeat" is a reconciliation
                     \* right after a reconciliation of the same snapshot
    now,             \* Date.now(), ms
    lastArgs,        \* debounce closure: lastArgs is set
    lastCallTime,    \* debounce closure: -1 is undefined
    lastInvokeTime,  \* debounce closure
    timerId,         \* debounce closure: deadline of the timer, -1 is undefined
    callLog,         \* times of the calls of debouncedFetchData
    execLog,         \* executions of fetchData by the debounced trigger
    cancelLog,       \* calls of debouncedFetchData.cancel(), with what they found
    lastDesc         \* <<>> or <<the descriptor of the latest updateChart call>>

compVars ==
    <<data, loading, charts, requests, handled, constructed, applied, calls, lastDesc>>
debVars ==
    <<lastArgs, lastCallTime, lastInvokeTime, timerId, callLog, execLog, cancelLog>>
vars == <<phase, refs, lastOp, now, compVars, debVars>>

Undefined == -1

\* ------------------------------------------------------- renderCharts data
fontStyling == [fontColor |-> "white", fontSize |-> 14]

lineStyles ==
    [borderColor |-> "#4472c4", backgroundColor |-> "#a5a5a5",
     lineTension |-> "0.1", fill |-> FALSE]

percentageLineOptions ==
    [legend |-> [display |-> FALSE],
     scales |->
        [xAxes |-> <<[ticks |-> fontStyling]>>,
         yAxes |-> <<[scaleLabel |-> [display |-> TRUE, labelString |-> "%",
                                      fontColor |-> "white", fontSize |-> 14],
                      ticks |-> [min |-> 0, max |-> 100,
                                 fontColor |-> "white", fontSize |-> 14]]>>],
     tooltips |-> [callbacks |-> [label |-> "${tooltipItem.yLabel}%"]]]

\* As StrokeUnitAccessDescriptor, with the first month and the last value
\* of the series left out
StrokeUnitAccessDescriptorShort(s) ==
    [title |-> "strokeUnitAccessChart",
     chartType |-> "line",
     data |-> [labels |-> Tail(s.months),
               datasets |-> <<[label |-> "Percentage",
                               data |-> SubSeq(s.stroke_unit_access, 1,
                                               Len(s.stroke_unit_access) - 1),
                               borderColor |-> lineStyles.borderColor,
                               backgroundColor |-> lineStyles.backgroundColor,
                               lineTension |-> lineStyles.lineTension,
                               fill |-> lineStyles.fill]>>],
     options |-> percentageLineOptions]

\* The descriptor renderCharts passes to updateChart for snapshot s
StrokeUnitAccessDescriptor(s) ==
    [title |-> "strokeUnitAccessChart",
     chartType |-> "line",
     data |-> [labels |-> s.months,
               datasets |-> <<[label |-> "Percentage",
                               data |-> s.stroke_unit_access,
                               borderColor |-> lineStyles.borderColor,
                               backgroundColor |-> lineStyles.backgroundColor,
                               lineTension |-> lineStyles.lineTension,
                               fill |-> lineStyles.fill]>>],
     options |-> percentageLineOptions]

\* The component state the methods read and write, as one record
Env ==
    [data |-> data, loading |-> loading, charts |-> charts, refs |-> refs,
     requests |-> requests, handled |-> handled, constructed |-> constructed,
     applied |-> applied, calls |-> calls, lastDesc |-> lastDesc, threw |-> FALSE]

\* new Chart(this.$refs[title], {type: chartType}); the n-th instance of a title
NewChart(n, chartType) ==
    [id |-> n, type |-> chartType, data |-> <<>>, options |-> <<>>, updates |-> 0]

\* As AssignAndUpdate, but the new labels and series are merged into the old
AssignAndUpdateMerge(chart, desc) ==
    LET old == IF chart.data = <<>>
               THEN [labels |-> <<>>, datasets |-> <<>>]
               ELSE chart.data[1]
    IN  [chart EXCEPT
           !.data = <<[labels |-> old.labels \o desc.data.labels,
                       datasets |-> old.datasets \o desc.data.datasets]>>,
           !.options = <<desc.options>>,
           !.updates = @ + 1]

\* As AssignAndUpdate, also taking the descriptor's chartType
AssignAndUpdateRetype(chart, desc) ==
    [chart EXCEPT !.type = desc.chartType, !.data = <<desc.data>>,
                  !.options = <<desc.options>>, !.updates = @ + 1]

\* chart.data = data; chart.options = options; chart.update()
AssignAndUpdate(chart, desc) ==
    [chart EXCEPT !.data = <<desc.data>>, !.options = <<desc.options>>,
                  !.updates = @ + 1]

\* Entry of updateChart: the call and its descriptor are noted
NoteCall(e, desc) ==
    [e EXCEPT !.lastDesc = <<desc>>,
              !.calls[desc.title] =
        [n |-> @.n + 1,
         absent |-> @.absent + (IF e.refs[desc.title] = Absent THEN 1 ELSE 0),
         broken |-> @.broken + (IF e.refs[desc.title] = Broken THEN 1 ELSE 0)]]

\* As UpdateChart, without the test of this.charts[title]: a present
\* container always gets a new Chart
UpdateChartAlwaysNew(env, desc) ==
    LET e == NoteCall(env, desc)
        title == desc.title
    IN  IF e.refs[title] = Absent
        THEN e
        ELSE IF e.refs[title] = Broken
             THEN [e EXCEPT !.threw = TRUE]
             ELSE LET n == e.constructed[title] + 1
                  IN  [e EXCEPT
                         !.constructed[title] = n,
                         !.charts[title] =
                            <<AssignAndUpdate(NewChart(n, desc.chartType), desc)>>]

\* As UpdateChart, without the test of this.$refs[title]
UpdateChartNoRefCheck(env, desc) ==
    LET e == NoteCall(env, desc)
        title == desc.title
    IN  IF e.charts[title] = <<>>
        THEN IF e.refs[title] = Broken
             THEN [e EXCEPT !.threw = TRUE]
             ELSE LET n == e.constructed[title] + 1
                  IN  [e EXCEPT
                         !.constructed[title] = n,
                         !.charts[title] =
                            <<AssignAndUpdate(NewChart(n, desc.chartType), desc)>>]
        ELSE [e EXCEPT !.charts[title] = <<AssignAndUpdate(@[1], desc)>>]

\* As UpdateChart, with the assignments and update() inside the creation branch
UpdateChartCreateOnly(env, desc) ==
    LET e == NoteCall(env, desc)
        title == desc.title
    IN  IF e.charts[title] = <<>>
        THEN IF e.refs[title] = Absent
             THEN e
             ELSE IF e.refs[title] = Broken
                  THEN [e EXCEPT !.threw = TRUE]
                  ELSE LET n == e.constructed[title] + 1
                       IN  [e EXCEPT
                              !.constructed[title] = n,
                              !.charts[title] =
                                 <<AssignAndUpdate(NewChart(n, desc.chartType), desc)>>]
        ELSE e

\* As UpdateChart, dropping a registered instance whose container is gone
UpdateChartDropsOnAbsent(env, desc) ==
    LET e == NoteCall(env, desc)
        title == desc.title
    IN  IF e.refs[title] = Absent
        THEN [e EXCEPT !.charts[title] = <<>>]
        ELSE IF e.charts[title] = <<>>
             THEN IF e.refs[title] = Broken
                  THEN [e EXCEPT !.threw = TRUE]
                  ELSE LET n == e.constructed[title] + 1
                       IN  [e EXCEPT
                              !.constructed[title] = n,
                              !.charts[title] =
                                 <<AssignAndUpdate(NewChart(n, desc.chartType), desc)>>]
             ELSE [e EXCEPT !.charts[title] = <<AssignAndUpdate(@[1], desc)>>]

\* As UpdateChart, with the test of this.$refs[title] inverted
UpdateChartInvertedRefTest(env, desc) ==
    LET e == NoteCall(env, desc)
        title == desc.title
    IN  IF e.charts[title] = <<>>
        THEN IF e.refs[title] # Absent
             THEN e
             ELSE LET n == e.constructed[title] + 1
                  IN  [e EXCEPT
                         !.constructed[title] = n,
                         !.charts[title] =
                            <<AssignAndUpdate(NewChart(n, desc.chartType), desc)>>]
        ELSE [e EXCEPT !.charts[title] = <<AssignAndUpdate(@[1], desc)>>]

\* As UpdateChart, with an entry stored in this.charts before the constructor
\* has returned
UpdateChartStoresBeforeThrow(env, desc) ==
    LET e == NoteCall(env, desc)
        title == desc.title
    IN  IF e.charts[title] = <<>>
        THEN IF e.refs[title] = Absent
             THEN e
             ELSE LET n == e.constructed[title] + 1
                  IN  IF e.refs[title] = Broken
                      THEN [e EXCEPT !.threw = TRUE,
                                     !.charts[title] = <<NewChart(n, desc.chartType)>>]
                      ELSE [e EXCEPT
                              !.constructed[title] = n,
                              !.charts[title] =
                                 <<AssignAndUpdate(NewChart(n, desc.chartType), desc)>>]
        ELSE [e EXCEPT !.charts[title] = <<AssignAndUpdate(@[1], desc)>>]

\* updateChart({title, data, options, chartType})
UpdateChart(env, desc) ==
    LET e == NoteCall(env, desc)
        title == desc.title
    IN  IF e.charts[title] = <<>>
        THEN IF e.refs[title] = Absent
             THEN e
             ELSE IF e.refs[title] = Broken
                  THEN [e EXCEPT !.threw = TRUE]
                  ELSE LET n == e.constructed[title] + 1
                       IN  [e EXCEPT
                              !.constructed[title] = n,
                              !.charts[title] =
                                 <<AssignAndUpdate(NewChart(n, desc.chartType), desc)>>]
        ELSE [e EXCEPT !.charts[title] = <<AssignAndUpdate(@[1], desc)>>]

\* renderCharts()
RenderCharts(env) ==
    IF env.data = <<>>
    THEN env
    ELSE UpdateChart(env, StrokeUnitAccessDescriptor(env.data[1]))

\* As ThenHandler, with this.renderCharts() before this.data is assigned
ThenHandlerRenderFirst(env, id, body) ==
    LET e == RenderCharts([env EXCEPT !.applied = Append(@, id)])
    IN  [e EXCEPT !.data = <<body>>, !.loading = FALSE]

\* .then(response => {...}) for request id with body
ThenHandler(env, id, body) ==
    RenderCharts([env EXCEPT !.data = <<body>>, !.loading = FALSE,
                             !.applied = Append(@, id)])

\* As CatchHandler, also blanking the stored snapshot
CatchHandlerClears(env, err) ==
    [env EXCEPT !.handled = Append(@, err), !.threw = FALSE, !.data = <<>>]

\* As CatchHandler, issuing the request again
CatchHandlerRetries(env, err) ==
    [env EXCEPT !.handled = Append(@, err), !.threw = FALSE,
                !.requests = Append(@, [via |-> "retry", at |-> 0,
                                        status |-> "pending", body |-> <<>>])]

\* .catch(err => { utils.handleRequestError(err) })
CatchHandler(env, err) ==
    [env EXCEPT !.handled = Append(@, err), !.threw = FALSE]

\* fetchData(), up to the request being issued
FetchData(env, via, time) ==
    [env EXCEPT !.loading = TRUE,
                !.requests = Append(@, [via |-> via, at |-> time,
                                        status |-> "pending", body |-> <<>>])]

\* The state after a method ran
Becomes(e) ==
    /\ data' = e.data
    /\ loading' = e.loading
    /\ charts' = e.charts
    /\ requests' = e.requests
    /\ handled' = e.handled
    /\ constructed' = e.constructed
    /\ applied' = e.applied
    /\ calls' = e.calls
    /\ lastDesc' = e.lastDesc

Init ==
    /\ phase = "new"
    /\ data = <<>>
    /\ loading = FALSE
    /\ charts = [t \in Titles |-> <<>>]
    /\ refs = [t \in Titles |-> Absent]
    /\ requests = <<>>
    /\ handled = <<>>
    /\ constructed = [t \in Titles |-> 0]
    /\ applied = <<>>
    /\ calls = [t \in Titles |-> [n |-> 0, absent |-> 0, broken |-> 0]]
    /\ lastOp = "init"
    /\ now = 0
    /\ lastArgs = FALSE
    /\ lastCallTime = Undefined
    /\ lastInvokeTime = 0
    /\ timerId = Undefined
    /\ callLog = <<>>
    /\ execLog = <<>>
    /\ cancelLog = <<>>
    /\ lastDesc = <<>>

\* As Created, with created() calling this.debouncedFetchData()
CreatedViaDebounce ==
    /\ phase = "new"
    /\ phase' = "created"
    /\ callLog' = Append(callLog, now)
    /\ lastCallTime' = now
    /\ timerId' = now + Wait
    /\ lastArgs' = FALSE
    /\ lastInvokeTime' = now
    /\ execLog' = Append(execLog, [at |-> now, edge |-> "leading"])
    /\ Becomes(FetchData(Env, "leading", now))
    /\ lastOp' = "fetch"
    /\ UNCHANGED <<refs, now, cancelLog>>

\* created() { this.fetchData() }
Created ==
    /\ phase = "new"
    /\ phase' = "created"
    /\ Becomes(FetchData(Env, "created", now))
    /\ lastOp' = "fetch"
    /\ UNCHANGED <<refs, now, debVars>>

\* The template is mounted: the canvas with ref="strokeUnitAccessChart" exists
Mounted ==
    /\ phase = "created"
    /\ phase' = "mounted"
    /\ refs' = [t \in Titles |-> Canvas]
    /\ lastOp' = "mount"
    /\ UNCHANGED <<now, compVars, debVars>>

\* The view layer adds, removes or replaces the element behind $refs[title]
ContainerChange ==
    /\ phase = "mounted"
    /\ \E t \in Titles, r \in RefStates :
          /\ r # refs[t]
          /\ refs' = [refs EXCEPT ![t] = r]
    /\ lastOp' = "container"
    /\ UNCHANGED <<phase, now, compVars, debVars>>

\* The request of fetchData invocation id succeeds with a body
ResponseOk ==
    /\ phase = "mounted"
    /\ \E id \in 1..Len(requests), body \in Snapshots :
          /\ requests[id].status = "pending"
          /\ LET e0 == [Env EXCEPT !.requests[id].status = "ok",
                                   !.requests[id].body = <<body>>]
                 e1 == ThenHandler(e0, id, body)
                 e2 == IF e1.threw
                       THEN CatchHandler(e1, [req |-> id, kind |-> "chart"])
                       ELSE e1
             IN  /\ Becomes(e2)
                 /\ lastOp' = IF lastOp \in {"reconcile", "repeat"} /\ data = <<body>>
                              THEN "repeat"
                              ELSE "reconcile"
    /\ UNCHANGED <<phase, refs, now, debVars>>

\* The request of fetchData invocation id fails
ResponseFail ==
    /\ phase = "mounted"
    /\ \E id \in 1..Len(requests) :
          /\ requests[id].status = "pending"
          /\ LET e0 == [Env EXCEPT !.requests[id].status = "failed"]
             IN  Becomes(CatchHandler(e0, [req |-> id, kind |-> "request"]))
    /\ lastOp' = "failure"
    /\ UNCHANGED <<phase, refs, now, debVars>>

\* ------------------------------------------- lodash-es debounce closure
\* debounce(this.fetchData, 1000, {leading: true}): leading is set by the
\* option, trailing keeps its default, maxWait is not given
NotLeading == FALSE
Leading == TRUE
Trailing == TRUE

\* As ShouldInvoke, measuring from the last execution instead of the last call
ShouldInvokeSinceInvoke(time) ==
    \/ lastCallTime = Undefined
    \/ time - lastInvokeTime >= Wait
    \/ time - lastCallTime < 0

\* shouldInvoke(time)
ShouldInvoke(time) ==
    \/ lastCallTime = Undefined
    \/ time - lastCallTime >= Wait
    \/ time - lastCallTime < 0

\* remainingWait(time), without maxWait
RemainingWait(time) == Wait - (time - lastCallTime)

\* invokeFunc(time): func is this.fetchData
InvokeFunc(time, edge) ==
    /\ lastArgs' = FALSE
    /\ lastInvokeTime' = time
    /\ execLog' = Append(execLog, [at |-> time, edge |-> edge])
    /\ Becomes(FetchData(Env, edge, time))
    /\ lastOp' = "fetch"

\* this.debouncedFetchData(): debounced(), with leadingEdge(time)
CallDebounced ==
    /\ phase = "mounted"
    /\ Len(callLog) < MaxCalls
    /\ callLog' = Append(callLog, now)
    /\ lastCallTime' = now
    /\ IF ShouldInvoke(now) /\ timerId = Undefined
       THEN /\ timerId' = now + Wait
            /\ IF Leading
               THEN InvokeFunc(now, "leading")
               ELSE /\ lastArgs' = TRUE
                    /\ lastInvokeTime' = now
                    /\ lastOp' = "call"
                    /\ UNCHANGED <<execLog, compVars>>
       ELSE /\ lastArgs' = TRUE
            /\ timerId' = IF timerId = Undefined THEN now + Wait ELSE timerId
            /\ lastOp' = "call"
            /\ UNCHANGED <<lastInvokeTime, execLog, compVars>>
    /\ UNCHANGED <<phase, refs, now, cancelLog>>

\* timerExpired(), with trailingEdge(time)
TimerExpired ==
    /\ timerId # Undefined
    /\ now >= timerId
    /\ IF ShouldInvoke(now)
       THEN /\ timerId' = Undefined
            /\ IF Trailing /\ lastArgs
               THEN InvokeFunc(now, "trailing")
               ELSE /\ lastArgs' = FALSE
                    /\ lastOp' = "timer"
                    /\ UNCHANGED <<lastInvokeTime, execLog, compVars>>
       ELSE /\ timerId' = now + RemainingWait(now)
            /\ lastOp' = "timer"
            /\ UNCHANGED <<lastArgs, lastInvokeTime, execLog, compVars>>
    /\ UNCHANGED <<phase, refs, now, lastCallTime, callLog, cancelLog>>

\* Time passes; a timer that is due runs before the clock moves past it
Advance(d) ==
    /\ phase = "mounted"
    /\ now + d <= MaxTime
    /\ timerId = Undefined \/ now + d <= timerId
    /\ now' = now + d
    /\ UNCHANGED <<phase, refs, lastOp, compVars, debVars>>

\* 100 ms pass
Tick == Advance(100)

\* A whole wait period passes
Elapse == Advance(Wait)

\* The component with its view layer; the clock moves in whole wait periods
Next ==
    \/ Created
    \/ Mounted
    \/ ContainerChange
    \/ CallDebounced
    \/ TimerExpired
    \/ Elapse
    \/ ResponseOk
    \/ ResponseFail

Spec == Init /\ [][Next]_vars

\* The debounced trigger on a 100 ms clock, with the container in place
NextDebounce ==
    \/ Created
    \/ Mounted
    \/ CallDebounced
    \/ TimerExpired
    \/ Tick
    \/ ResponseOk
    \/ ResponseFail

SpecDebounce == Init /\ [][NextDebounce]_vars

\* --------------------------------------------- debouncedFetchData.cancel()
MaxCancels == 1          \* calls of cancel() in one run

\* What a call of cancel() finds: the calls and executions so far, whether a
\* trailing execution is pending and when it is due, and the requests in flight
CancelNote ==
    [at |-> now,
     calls |-> Len(callLog),
     execs |-> Len(execLog),
     applied |-> Len(applied),
     pending |-> lastArgs /\ timerId # Undefined,
     due |-> timerId,
     inflight |-> {id \in DOMAIN requests : requests[id].status = "pending"}]

\* As Cancel, without clearTimeout and the reset of timerId and lastArgs
CancelKeepsTimer ==
    /\ phase = "mounted"
    /\ Len(cancelLog) < MaxCancels
    /\ cancelLog' = Append(cancelLog, CancelNote)
    /\ lastInvokeTime' = 0
    /\ lastCallTime' = lastCallTime
    /\ lastOp' = "cancel"
    /\ UNCHANGED <<phase, refs, now, compVars, lastArgs, timerId, callLog, execLog>>

\* this.debouncedFetchData.cancel(): cancel() of lodash-es debounce
Cancel ==
    /\ phase = "mounted"
    /\ Len(cancelLog) < MaxCancels
    /\ cancelLog' = Append(cancelLog, CancelNote)
    /\ lastInvokeTime' = 0
    /\ lastArgs' = FALSE
    /\ lastCallTime' = Undefined
    /\ timerId' = Undefined
    /\ lastOp' = "cancel"
    /\ UNCHANGED <<phase, refs, now, compVars, callLog, execLog>>

\* The debounced trigger with cancel() and successful responses; the clock
\* moves in whole wait periods
NextCancel ==
    \/ Created
    \/ Mounted
    \/ CallDebounced
    \/ Cancel
    \/ TimerExpired
    \/ Elapse
    \/ ResponseOk

SpecCancel == Init /\ [][NextCancel]_vars

\* ------------------------------------------------ updateChart on its own
MaxUpdateCalls == 4      \* direct calls of updateChart in one run

ChartTypes == {"line", "bar"}

\* renderCharts: const options, the options of the bar charts
barOptions ==
    [legend |-> [display |-> TRUE,
                 labels |-> fontStyling,
                 position |-> "bottom"],
     scales |->
        [xAxes |-> <<[ticks |-> fontStyling]>>,
         yAxes |-> <<[scaleLabel |-> [display |-> TRUE, fontSize |-> 14,
                                      fontColor |-> "#ccc", labelString |-> "Stays"],
                      ticks |-> [beginAtZero |-> TRUE, callback |-> "isInteger",
                                 fontColor |-> "white", fontSize |-> 14,
                                 stepSize |-> 1, min |-> 0]]>>]]

\* Arguments of updateChart: {title, data, options, chartType}
Descriptors ==
    [title : Titles,
     chartType : ChartTypes,
     data : {StrokeUnitAccessDescriptor(s).data : s \in Snapshots},
     options : {percentageLineOptions, barOptions}]

\* this.updateChart(desc), called with any descriptor; an exception of the
\* constructor goes to the caller
CallUpdateChart ==
    /\ phase = "mounted"
    /\ \E desc \in Descriptors :
          /\ calls[desc.title].n < MaxUpdateCalls
          /\ Becomes(UpdateChart(Env, desc))
    /\ lastOp' = "updateChart"
    /\ UNCHANGED <<phase, refs, now, debVars>>

\* updateChart under any sequence of descriptors and container changes
NextUpdateChart ==
    \/ Created
    \/ Mounted
    \/ ContainerChange
    \/ CallUpdateChart

SpecUpdateChart == Init /\ [][NextUpdateChart]_vars

\* ------------------------------------------------------------ the view
\* <p v-if="data">Year to date: {{ data.stroke_unit_access_percentage }}%</p>:
\* the pieces of the rendered text, <<>> when the paragraph is not rendered
Summary ==
    IF data = <<>>
    THEN <<>>
    ELSE <<"Year to date: ", ToString(data[1].stroke_unit_access_percentage), "%">>

\* ------------------------------------------------------------ helpers
Slot == "strokeUnitAccessChart"

Last(seq) == seq[Len(seq)]

\* updateChart ran for title t in this step, and saw the container absent
AbsentCallStep(t) == calls'[t].absent > calls[t].absent

\* The then-handler of a response ran in this step
ReconcileStep == Len(applied') = Len(applied) + 1

\* Same registration: nothing, or the same instance with equal dataset and options
SameRegistration(a, b) ==
    \/ a = <<>> /\ b = <<>>
    \/ /\ a # <<>>
       /\ b # <<>>
       /\ a[1].id = b[1].id
       /\ a[1].type = b[1].type
       /\ a[1].data = b[1].data
       /\ a[1].options = b[1].options

\* The dataset renderCharts derives from snapshot s
DatasetOf(s) == StrokeUnitAccessDescriptor(s).data

\* ------------------------------------------------------------ C1
\* C1: a slot whose container was present (a canvas) at every one of its
\* N >= 1 updateChart calls has had exactly one Chart constructed, the first
\* call constructed it, and that one instance received every call's update.
CreateOnce ==
    \A t \in Titles :
        (calls[t].n >= 1 /\ calls[t].absent = 0 /\ calls[t].broken = 0)
            => /\ constructed[t] = 1
               /\ charts[t] # <<>>
               /\ charts[t][1].id = 1
               /\ charts[t][1].updates = calls[t].n

CreateOnceWitness ==
    /\ calls[Slot] = [n |-> 3, absent |-> 0, broken |-> 0]
    /\ constructed[Slot] = 1
    /\ charts[Slot][1].updates = 3

IdempotentReconciliation ==
    [][lastOp' = "repeat" =>
          /\ constructed' = constructed
          /\ \A t \in Titles : SameRegistration(charts[t], charts'[t])]_vars

IdempotentReconciliationWitness ==
    /\ lastOp = "repeat"
    /\ charts[Slot] # <<>>
    /\ charts[Slot][1].updates >= 2
    /\ charts[Slot][1].data = <<DatasetOf(data[1])>>

\* ------------------------------------------------------------ C4
BurstCalls == <<0, 100, 300>>

\* C4 as stated: for calls at 0, 100 and 300 and no more, fetchData runs at 0
\* and at 1000, at no other time, and at most twice.
DebounceCoalescingAtWindowEnd ==
    callLog = BurstCalls =>
        /\ Len(execLog) <= 2
        /\ \A i \in DOMAIN execLog : execLog[i].at \in {0, 1000}
        /\ now > 1000 => Len(execLog) = 2

\* C4 as amended: for calls at 0, 100 and 300 and no more, fetchData runs at 0
\* (leading) and at 1300 (trailing, one wait after the last call), at no other
\* time, and at most twice.
DebounceCoalescing ==
    callLog = BurstCalls =>
        /\ Len(execLog) \in {1, 2}
        /\ execLog[1] = [at |-> 0, edge |-> "leading"]
        /\ Len(execLog) = 2 => execLog[2] = [at |-> 1300, edge |-> "trailing"]
        /\ now > 1300 => Len(execLog) = 2

DebounceCoalescingWitness ==
    /\ callLog = BurstCalls
    /\ now = 1400
    /\ execLog = <<[at |-> 0, edge |-> "leading"], [at |-> 1300, edge |-> "trailing"]>>

\* ------------------------------------------------------------ C5
\* C5: once a response has been handled, the stored snapshot is the body of
\* the response handled last and a registered instance carries the dataset
\* derived from it, whatever the order in which the fetches were started.
LastWriteWins ==
    applied # <<>> =>
        LET body == requests[Last(applied)].body
        IN  /\ data = body
            /\ \A t \in Titles :
                  charts[t] # <<>> => charts[t][1].data = <<DatasetOf(body[1])>>

\* Fetch 2 was started after fetch 1 and handled before it; both succeeded
LastWriteWinsWitness ==
    /\ applied = <<2, 1>>
    /\ requests[1].body # requests[2].body
    /\ data = requests[1].body
    /\ charts[Slot] # <<>>
    /\ charts[Slot][1].data = <<DatasetOf(requests[1].body[1])>>

\* ------------------------------------------------------------ C6
\* C6: when a response with body S is handled while the slot's container is a
\* canvas, then afterwards one Chart has been constructed for the slot, it is
\* registered, its dataset is exactly labels S.months with the single series
\* S.stroke_unit_access, its options are percentageLineOptions, update() ran
\* on it in this step, and the summary ends with the percentage and "%".
EndToEndProjection ==
    [][(ReconcileStep /\ refs[Slot] = Canvas) =>
          LET S == requests'[Last(applied')].body[1]
              c == charts'[Slot]
          IN  /\ constructed'[Slot] = 1
              /\ c # <<>>
              /\ c[1].data[1].labels = S.months
              /\ Len(c[1].data[1].datasets) = 1
              /\ c[1].data[1].datasets[1].data = S.stroke_unit_access
              /\ c[1].options = <<percentageLineOptions>>
              /\ c[1].updates = (IF charts[Slot] = <<>> THEN 0
                                 ELSE charts[Slot][1].updates) + 1
              /\ SubSeq(Summary', 2, 3) =
                    <<ToString(S.stroke_unit_access_percentage), "%">>]_vars

\* The snapshot of the example replaced an earlier, different one
EndToEndProjectionWitness ==
    /\ Len(applied) = 2
    /\ requests[applied[1]].body = <<SnapshotB>>
    /\ data = <<SnapshotA>>
    /\ lastOp = "reconcile"
    /\ refs[Slot] = Canvas
    /\ constructed[Slot] = 1
    /\ charts[Slot][1].data[1].labels = <<"Jan", "Feb">>
    /\ charts[Slot][1].data[1].datasets[1].data = <<80, 90>>
    /\ charts[Slot][1].updates = 2
    /\ Summary = <<"Year to date: ", "85", "%">>

\* ------------------------------------------------------------ C7
\* C7: handling a failed request leaves data, the registered instances with
\* their datasets and options, and the count of constructions as they were,
\* runs no reconciliation, and hands the error to utils.handleRequestError.
FetchFailureRetainsState ==
    [][\A id \in DOMAIN requests :
          (requests[id].status = "pending" /\ requests'[id].status = "failed") =>
              /\ data' = data
              /\ charts' = charts
              /\ constructed' = constructed
              /\ applied' = applied
              /\ calls' = calls
              /\ handled' = Append(handled, [req |-> id, kind |-> "request"])]_vars

FetchFailureRetainsStateWitness ==
    /\ lastOp = "failure"
    /\ data # <<>>
    /\ charts[Slot] # <<>>
    /\ handled # <<>>
    /\ Last(handled).kind = "request"

\* ------------------------------------------------------------ C8
\* C8: a failure of the Chart constructor during reconciliation is never
\* handed to utils.handleRequestError.
ReconciliationFailureNotAbsorbed ==
    \A i \in DOMAIN handled : handled[i].kind # "chart"

\* ------------------------------------------------------------ C9
\* C9: of two fetches started by the debounced trigger, the later-started one
\* is never handled while the earlier-started one is still outstanding.
OrderingUnderDebounce ==
    \A n, m \in DOMAIN requests :
        (/\ n < m
         /\ requests[n].via # "created"
         /\ requests[m].via # "created"
         /\ requests[m].status # "pending")
            => requests[n].status # "pending"

\* ------------------------------------------------------------ C10
\* A call of debouncedFetchData in this step, made while no timer is pending
SilentCallStep == callLog' # callLog /\ timerId = Undefined

\* The call of this step executed fetchData at once
ExecutedNow ==
    /\ Len(execLog') = Len(execLog) + 1
    /\ Last(execLog').at = now

\* C10 as stated: the first call of a silent period executes fetchData at
\* once, and consecutive executions are at least one wait apart.
OneFetchPerCooldown ==
    [][/\ SilentCallStep => ExecutedNow
       /\ \A i \in 2..Len(execLog') :
             execLog'[i].at - execLog'[i - 1].at >= Wait]_vars

\* C10 as amended: the first call of a silent period executes fetchData at
\* once, and consecutive executions are at least one wait apart unless the
\* earlier is a trailing execution and the later the leading execution of the
\* next call.
OneFetchPerCooldownButAfterTrailing ==
    [][/\ SilentCallStep => ExecutedNow
       /\ \A i \in 2..Len(execLog') :
             \/ execLog'[i].at - execLog'[i - 1].at >= Wait
             \/ /\ execLog'[i - 1].edge = "trailing"
                /\ execLog'[i].edge = "leading"]_vars

\* A leading execution 100 ms after a trailing one
OneFetchPerCooldownWitness ==
    /\ Len(execLog) = 3
    /\ execLog[2].edge = "trailing"
    /\ execLog[3].edge = "leading"
    /\ execLog[3].at - execLog[2].at = 100

\* updateChart ran for title t in this step
UpdateChartStep(t) == calls'[t].n > calls[t].n

\* ------------------------------------------------------------ C11
\* C11: at most one Chart is ever constructed per title, and a title that
\* holds an instance holds that same instance after every step.
RegistryNeverOverwritten ==
    [][\A t \in Titles :
          /\ constructed'[t] <= 1
          /\ charts[t] # <<>> =>
                /\ charts'[t] # <<>>
                /\ charts'[t][1].id = charts[t][1].id
                /\ constructed'[t] = constructed[t]]_vars

\* The instance went through a reconciliation without its container, a
\* failed fetch and two more reconciliations
RegistryNeverOverwrittenWitness ==
    /\ constructed[Slot] = 1
    /\ charts[Slot] # <<>>
    /\ charts[Slot][1].id = 1
    /\ charts[Slot][1].updates = 3
    /\ calls[Slot].absent >= 1
    /\ handled # <<>>

\* ------------------------------------------------------------ C12
\* C12: after cancel() a trailing execution happens only for calls made
\* after it (the cancelled one never runs); cancel() leaves the requests and
\* the component's data alone, and the response of a request that was in
\* flight at a cancel() is applied to data and the chart when it arrives.
CancelPreventsTrailing ==
    [][/\ (/\ Len(execLog') > Len(execLog)
           /\ Last(execLog').edge = "trailing"
           /\ cancelLog # <<>>)
              => Len(callLog) >= Last(cancelLog).calls + 2
       /\ Len(cancelLog') > Len(cancelLog) => compVars' = compVars
       /\ (/\ ReconcileStep
           /\ \E i \in DOMAIN cancelLog : Last(applied') \in cancelLog[i].inflight)
              => /\ data' = requests'[Last(applied')].body
                 /\ charts'[Slot] # <<>>
                 /\ charts'[Slot][1].data = <<DatasetOf(data'[1])>>]_vars

\* cancel() found a trailing execution pending; its due time has passed
\* without an execution, and a request in flight at the cancel was applied
CancelPreventsTrailingWitness ==
    /\ cancelLog # <<>>
    /\ cancelLog[1].pending
    /\ now >= cancelLog[1].due
    /\ timerId = Undefined
    /\ Len(callLog) = cancelLog[1].calls
    /\ Len(execLog) = cancelLog[1].execs
    /\ Len(applied) > cancelLog[1].applied
    /\ Last(applied) \in cancelLog[1].inflight
    /\ data = requests[Last(applied)].body
    /\ charts[Slot][1].data = <<DatasetOf(data[1])>>

\* ------------------------------------------------------------ C13
\* C13: the requests issued are exactly one per invocation of fetchData: the
\* one of created() and one per execution by the debounced trigger; handling
\* a response issues none.
OneRequestPerInvocation ==
    /\ Len(requests) = (IF phase = "new" THEN 0 ELSE 1) + Len(execLog)
    /\ \A id \in DOMAIN requests : requests[id].via \in {"created", "leading", "trailing"}

OneRequestPerInvocationWitness ==
    /\ Len(requests) = 3
    /\ Len(execLog) = 2
    /\ requests[1].status = "failed"
    /\ requests[2].status = "ok"
    /\ requests[3].status = "failed"

\* ------------------------------------------------------------ C14
\* C14: an updateChart call for a title without an instance that registers
\* one gives it the descriptor's chartType; a call for a title with an
\* instance keeps the instance and its type, whatever the descriptor's
\* chartType, and reassigns only dataset and options.
ChartKindFixedAtCreation ==
    [][\A t \in Titles :
          UpdateChartStep(t) =>
              IF charts[t] = <<>>
              THEN charts'[t] # <<>> => charts'[t][1].type = lastDesc'[1].chartType
              ELSE /\ charts'[t][1].id = charts[t][1].id
                   /\ charts'[t][1].type = charts[t][1].type
                   /\ charts'[t][1].data = <<lastDesc'[1].data>>
                   /\ charts'[t][1].options = <<lastDesc'[1].options>>]_vars

\* A line chart that was then given a bar descriptor
ChartKindFixedAtCreationWitness ==
    /\ charts[Slot] # <<>>
    /\ charts[Slot][1].type = "line"
    /\ lastDesc # <<>>
    /\ lastDesc[1].chartType = "bar"
    /\ charts[Slot][1].options = <<barOptions>>
    /\ charts[Slot][1].updates = 2

\* ------------------------------------------------------------ C15
\* C15 as stated: every request, the initial load's included, is started by
\* the debounced trigger, and no fetch started within one wait of the initial
\* load is in flight together with it.
EveryFetchDebounced ==
    /\ \A id \in DOMAIN requests : requests[id].via # "created"
    /\ \A id \in 2..Len(requests) :
          ~ /\ requests[1].status = "pending"
            /\ requests[id].status = "pending"
            /\ requests[id].at - requests[1].at < Wait

\* C15 as amended: the initial load's request, and only it, is started by
\* created() calling fetchData directly; the first call of the debounced
\* trigger therefore executes at once, however soon after the initial load.
InitialLoadBypassesDebounce ==
    /\ \A id \in DOMAIN requests : (requests[id].via = "created") <=> (id = 1)
    /\ callLog # <<>> =>
          /\ Len(requests) >= 2
          /\ requests[2].via = "leading"
          /\ requests[2].at = callLog[1]

\* A trigger 100 ms after the initial load: both fetches are in flight
InitialLoadBypassesDebounceWitness ==
    /\ Len(requests) >= 2
    /\ requests[1].via = "created"
    /\ requests[2].via = "leading"
    /\ requests[2].at - requests[1].at = 100
    /\ requests[1].status = "pending"
    /\ requests[2].status = "pending"

\* ------------------------------------------------------------ C16
\* C16: an updateChart call for a title without an instance returns with
\* nothing constructed, registered or updated when the title has no $ref,
\* and constructs and registers the instance (one update()) when the $ref
\* is a canvas, also after earlier calls that found no $ref.
SkipUntilRefPresent ==
    [][\A t \in Titles :
          (UpdateChartStep(t) /\ charts[t] = <<>>) =>
              /\ refs[t] = Absent =>
                    /\ charts'[t] = <<>>
                    /\ constructed'[t] = constructed[t]
              /\ refs[t] = Canvas =>
                    /\ charts'[t] # <<>>
                    /\ constructed'[t] = constructed[t] + 1
                    /\ charts'[t][1].id = constructed'[t]
                    /\ charts'[t][1].updates = 1]_vars

\* One call without a $ref, then one with it
SkipUntilRefPresentWitness ==
    /\ calls[Slot] = [n |-> 2, absent |-> 1, broken |-> 0]
    /\ constructed[Slot] = 1
    /\ charts[Slot] # <<>>
    /\ charts[Slot][1].updates = 1

\* ------------------------------------------------------------ C17
\* C17: a registered instance for 'strokeUnitAccessChart' always carries the
\* labels data.months and the series data.stroke_unit_access of the snapshot
\* held in data.
ChartShowsStoredSnapshot ==
    charts[Slot] # <<>> =>
        /\ data # <<>>
        /\ charts[Slot][1].data # <<>>
        /\ charts[Slot][1].data[1].labels = data[1].months
        /\ charts[Slot][1].data[1].datasets[1].data = data[1].stroke_unit_access

\* After two snapshots, a failed fetch and a reconciliation without container
ChartShowsStoredSnapshotWitness ==
    /\ charts[Slot] # <<>>
    /\ Len(applied) = 3
    /\ requests[applied[2]].body # requests[applied[3]].body
    /\ data = <<SnapshotB>>
    /\ charts[Slot][1].data[1].labels = <<"Jan", "Feb", "Mar">>
    /\ calls[Slot].absent >= 1
    /\ handled # <<>>

\* ------------------------------------------------------------ C18
\* C18: loading is true exactly when a request is outstanding.
LoadingTracksOutstanding ==
    loading <=> (\E id \in DOMAIN requests : requests[id].status = "pending")

\* ------------------------------------------------------------ C19
\* C19: when the Chart constructor throws in updateChart, no entry is added
\* for the title and nothing counts as constructed; a later call that finds
\* a canvas constructs and registers the instance.
FailedConstructionRegistersNothing ==
    [][\A t \in Titles :
          (UpdateChartStep(t) /\ charts[t] = <<>>) =>
              /\ refs[t] = Broken =>
                    /\ charts'[t] = <<>>
                    /\ constructed'[t] = constructed[t]
              /\ (refs[t] = Canvas /\ calls[t].broken >= 1) =>
                    /\ charts'[t] # <<>>
                    /\ charts'[t][1].updates = 1
                    /\ charts'[t][1].data = <<lastDesc'[1].data>>]_vars

\* The constructor threw once; the next reconciliation constructed the chart
FailedConstructionRegistersNothingWitness ==
    /\ calls[Slot] = [n |-> 2, absent |-> 0, broken |-> 1]
    /\ constructed[Slot] = 1
    /\ charts[Slot] # <<>>
    /\ charts[Slot][1].updates = 1
    /\ Len(handled) = 1

====
